---- MODULE Spec2Model ----
(***************************************************************************)
(* Model of the lot tracking dashboard of streamlit_app.py: the session    *)
(* state, the LotTrackingDashboard object of the current script run, the   *)
(* critical-lot filter, the two captures and the before/after analysis.    *)
(*                                                                         *)
(* A text cell is a string; its characters are spelled out by Chars, so    *)
(* that the case-insensitive substring tests of the code are computed on   *)
(* the characters, not assumed. A null cell (pandas NaN) is the value NaN, *)
(* which is no text of the model.                                          *)
(***************************************************************************)
EXTENDS Naturals, Sequences, FiniteSets, TLC

VARIABLES
    session_state,  \* st.session_state: a mapping whose keys appear as they are set
    dashboard,      \* the LotTrackingDashboard object of the current script run
    messages,       \* the st.success / st.warning / st.error outputs of the current run
    analyze_exit,   \* how the last analyze_processed_lots call of the run returned
    uncaught,       \* the exception that escaped the current run, or "none"
    sheet_header,   \* the header row of the sheet, the same for the whole session
    filter_arg,     \* the frame last given to filter_critical_lots, as it was given
    filter_in,      \* the same frame of the caller, as the call left it
    filter_out,     \* what that call returned, or the exception it raised
    qty_arg,        \* the frame last given to safe_qty_sum
    qty_out,        \* what that call returned
    gate,           \* st.session_state: the keys of the attendance and detape steps
    stage,          \* the step of main the last run showed, and what it said
    attendance_form, \* the locals of the last submission of the attendance form
    members_data,   \* the rows of the PTEO Members sheet as loaded
    attendance_sheet, \* the rows of the Attendance Record sheet
    detape_sheet,   \* the rows of the Detape Monitoring sheet
    console         \* the attendance console: its position and its locals

\* the variables of the dashboard stage of main
dashVars == <<session_state, dashboard, messages, analyze_exit, uncaught, sheet_header>>

\* the variables of the calls of single methods
filterVars == <<filter_arg, filter_in, filter_out>>
qtyVars == <<qty_arg, qty_out>>

\* the variables of the attendance and detape steps and of the console
attendanceVars == <<gate, stage, attendance_form, members_data, attendance_sheet,
                    detape_sheet, console>>

vars == <<dashVars, filterVars, qtyVars, attendanceVars>>

----------------------------------------------------------------------------
(* Bounds *)

\* the largest number of rows one sheet read returns
MaxRows == 2

\* the largest number of rows of a frame given to filter_critical_lots alone
MaxFilterRows == 3

\* the largest number of rows of a frame given to safe_qty_sum
MaxQtyRows == 3

\* the largest number of lines typed into the text area of absent names
MaxManualLines == 3

\* the largest number of member numbers typed on one line of the console
MaxAbsentLine == 3

\* the largest detape count entered
MaxDetape == 2

----------------------------------------------------------------------------
(* Text *)

NaN == "<NaN>"

\* the upper-case form of the lower-case letters
UpperOf ==
    ("a" :> "A") @@ ("b" :> "B") @@ ("c" :> "C") @@ ("d" :> "D") @@ ("e" :> "E") @@
    ("f" :> "F") @@ ("g" :> "G") @@ ("h" :> "H") @@ ("i" :> "I") @@ ("j" :> "J") @@
    ("k" :> "K") @@ ("l" :> "L") @@ ("m" :> "M") @@ ("n" :> "N") @@ ("o" :> "O") @@
    ("p" :> "P") @@ ("q" :> "Q") @@ ("r" :> "R") @@ ("s" :> "S") @@ ("t" :> "T") @@
    ("u" :> "U") @@ ("v" :> "V") @@ ("w" :> "W") @@ ("x" :> "X") @@ ("y" :> "Y") @@
    ("z" :> "Z")

\* re.IGNORECASE on ASCII text: compare the upper-cased characters
ToUpper(c) == IF c \in DOMAIN UpperOf THEN UpperOf[c] ELSE c

\* the characters of every text of the model
Chars ==
    ("ENGR-SPLIT LOW YIELD" :> <<"E","N","G","R","-","S","P","L","I","T"," ","L","O","W"," ","Y","I","E","L","D">>) @@
    ("NEAR DUE" :> <<"N","E","A","R"," ","D","U","E">>) @@
    ("EXPEDITE OVERDUE" :> <<"E","X","P","E","D","I","T","E"," ","O","V","E","R","D","U","E">>) @@
    ("OVERDUE" :> <<"O","V","E","R","D","U","E">>) @@
    ("Total" :> <<"T","o","t","a","l">>) @@
    ("No filters applied" :> <<"N","o"," ","f","i","l","t","e","r","s"," ","a","p","p","l","i","e","d">>) @@
    ("" :> <<>>) @@
    ("A" :> <<"A">>) @@
    ("B" :> <<"B">>) @@
    ("NORMAL" :> <<"N","O","R","M","A","L">>) @@
    ("engr-split low yield 2" :> <<"e","n","g","r","-","s","p","l","i","t"," ","l","o","w"," ","y","i","e","l","d"," ","2">>) @@
    ("ON TIME" :> <<"O","N"," ","T","I","M","E">>) @@
    ("3 NEAR DUE" :> <<"3"," ","N","E","A","R"," ","D","U","E">>) @@
    ("Expedite Overdue" :> <<"E","x","p","e","d","i","t","e"," ","O","v","e","r","d","u","e">>) @@
    ("nan" :> <<"n","a","n">>) @@
    ("Grand total" :> <<"G","r","a","n","d"," ","t","o","t","a","l">>) @@
    ("NO FILTERS APPLIED" :> <<"N","O"," ","F","I","L","T","E","R","S"," ","A","P","P","L","I","E","D">>) @@
    ("TEST" :> <<"T","E","S","T">>)

UpperText(s) == [i \in DOMAIN s |-> ToUpper(s[i])]

\* pat occurs in s as a substring, both already upper-cased
OccursIn(pat, s) ==
    \E i \in 0..Len(s) :
        /\ i + Len(pat) <= Len(s)
        /\ \A j \in 1..Len(pat) : s[i + j] = pat[j]

SPLIT_LOW_YIELD == "ENGR-SPLIT LOW YIELD"

SplitPatterns == {SPLIT_LOW_YIELD}
OtdPatterns == {"NEAR DUE", "EXPEDITE OVERDUE", "OVERDUE"}
SummaryRowPatterns == {"Total", "No filters applied"}

\* one of the patterns occurs in the text, whatever the case of the letters
Matches(text, pats) ==
    LET upper == UpperText(Chars[text])
    IN  \E p \in pats : OccursIn(UpperText(Chars[p]), upper)

\* for each set of patterns of the code, the texts of the model it matches
MatchingTexts ==
    (SplitPatterns :> {t \in DOMAIN Chars : Matches(t, SplitPatterns)}) @@
    (OtdPatterns :> {t \in DOMAIN Chars : Matches(t, OtdPatterns)}) @@
    (SummaryRowPatterns :> {t \in DOMAIN Chars : Matches(t, SummaryRowPatterns)})

\* Series.str.contains(pat, case=False, na=False) on one cell, for the
\* alternatives of a regex of literal branches: a null cell gives na, i.e. False
StrContains(cell, pats) ==
    IF cell = NaN THEN FALSE ELSE cell \in MatchingTexts[pats]

----------------------------------------------------------------------------
(* Data frames *)

\* A pandas DataFrame: its column names, the columns of object dtype (the ones
\* the .str accessor accepts) and its rows, each a mapping of column to cell.
EmptyFrame == [columns |-> {}, objcols |-> {}, rows |-> <<>>]

\* Python None
None == [none |-> TRUE]

\* pd.DataFrame(records): no record gives a frame without columns; a column is
\* of object dtype iff one of its cells is text (a column of NaN only is float64)
FromRecords(recs) ==
    IF recs = <<>> THEN EmptyFrame
    ELSE [columns |-> DOMAIN recs[1],
          objcols |-> {c \in DOMAIN recs[1] : \E i \in DOMAIN recs : recs[i][c] # NaN},
          rows    |-> recs]

\* len(df)
NRows(df) == Len(df.rows)

\* df[mask]: the rows the mask keeps, in order, with the columns and dtypes of df
RowsWhere(df, Keep(_)) ==
    [columns |-> df.columns, objcols |-> df.objcols, rows |-> SelectSeq(df.rows, Keep)]

\* Series.astype(str) on one cell
AsTypeStr(cell) == IF cell = NaN THEN "nan" ELSE cell

\* set(df[col].dropna())
DropNaSet(df, col) == {df.rows[i][col] : i \in DOMAIN df.rows} \ {NaN}

----------------------------------------------------------------------------
(* The sheet *)

LOT == "LOT NUMBER"
CAT == "CATEGORY"
OTD == "OTD STATUS"
OPER == "Operation"

SheetRow(lot, cat, otd) == (LOT :> lot) @@ (CAT :> cat) @@ (OTD :> otd)

\* The rows a sheet read is drawn from, in sheet order: lot A on two rows of
\* different categories, lot B with an empty and with a null category, a row
\* with an empty lot number and one with a null lot number.
Catalogue ==
    << SheetRow("A", "engr-split low yield 2", "ON TIME"),
       SheetRow("A", "NORMAL", "3 NEAR DUE"),
       SheetRow("B", "", "OVERDUE"),
       SheetRow("B", NaN, "Expedite Overdue"),
       SheetRow("", "ENGR-SPLIT LOW YIELD", ""),
       SheetRow(NaN, "NORMAL", "OVERDUE") >>

\* The header rows a sheet read may have
FullHeader == {LOT, CAT, OTD}
NoLotHeader == {CAT, OTD}
NoCategoryHeader == {LOT, OTD}

Headers == {FullHeader, NoLotHeader, NoCategoryHeader}

Restrict(row, header) == [c \in header |-> row[c]]

\* The selections of at most MaxRows catalogue rows, each once and in sheet order
Selections ==
    UNION { { s \in [1..n -> DOMAIN Catalogue] : \A i \in 1..n, j \in 1..n : i < j => s[i] < s[j] }
            : n \in 0..MaxRows }

\* What read_sheet_data returns from a sheet with header row h: None when
\* connecting or reading fails, else the frame of the records of the sheet
ReadsFrom(h) ==
    {None} \cup
    { FromRecords([i \in DOMAIN s |-> Restrict(Catalogue[s[i]], h)]) : s \in Selections }

\* the reads of each header, computed once
ReadsOf ==
    (FullHeader :> ReadsFrom(FullHeader)) @@
    (NoLotHeader :> ReadsFrom(NoLotHeader)) @@
    (NoCategoryHeader :> ReadsFrom(NoCategoryHeader))

SheetReads(h) == ReadsOf[h]

----------------------------------------------------------------------------
(* filter_critical_lots *)

\* a slip: the exclusion step left out
WithoutSummaryRows_Skipped(df) == df

\* the frame after the summary rows are excluded
WithoutSummaryRows(df) ==
    IF OPER \in df.columns
    THEN LET Keep(r) == ~StrContains(AsTypeStr(r[OPER]), SummaryRowPatterns)
         IN  RowsWhere(df, Keep)
    ELSE df

\* the .str accessor raises AttributeError on a column that is not of object dtype
FilterRaises(df) ==
    /\ df # None
    /\ NRows(df) > 0
    /\ \/ OTD \in df.columns /\ OTD \notin df.objcols
       \/ CAT \in df.columns /\ CAT \notin df.objcols

\* a slip: a critical predicate that discards every row it cannot classify
filter_critical_lots_DropUnclassified(df) ==
    IF df = None \/ NRows(df) = 0 THEN df
    ELSE LET d1 == WithoutSummaryRows(df)
             otd_filter(r) == OTD \in d1.columns /\ StrContains(r[OTD], OtdPatterns)
             split_filter(r) == CAT \in d1.columns /\ StrContains(r[CAT], SplitPatterns)
             combined_filter(r) == otd_filter(r) \/ split_filter(r)
         IN  RowsWhere(d1, combined_filter)

filter_critical_lots(df) ==
    IF df = None \/ NRows(df) = 0 THEN df
    ELSE LET d1 == WithoutSummaryRows(df)
             otd_filter(r) == OTD \in d1.columns /\ StrContains(r[OTD], OtdPatterns)
             split_filter(r) == CAT \in d1.columns /\ StrContains(r[CAT], SplitPatterns)
             combined_filter(r) == otd_filter(r) \/ split_filter(r)
         IN  IF OTD \in d1.columns \/ CAT \in d1.columns
             THEN RowsWhere(d1, combined_filter)
             ELSE d1

----------------------------------------------------------------------------
(* LotTrackingDashboard *)

\* the Python list [] that __init__ gives processed_lots and in_progress_lots
EmptyList == [items |-> <<>>]

\* len() of an attribute that is a list or a frame
LenOf(x) == IF x = EmptyList THEN 0 ELSE NRows(x)

\* mapping[key] = value, adding the key when it is not there
Set(mapping, key, value) == (key :> value) @@ mapping

\* a slip: the rows of an analysis added to the ones the attribute holds
SetAttr_Extend(obj, attr, value) ==
    IF /\ attr \in DOMAIN obj
       /\ "rows" \in DOMAIN value
       /\ "rows" \in DOMAIN obj[attr]
    THEN (attr :> [value EXCEPT !.rows = obj[attr].rows \o @]) @@ obj
    ELSE (attr :> value) @@ obj

\* self.attr = value
SetAttr(obj, attr, value) == (attr :> value) @@ obj

BEFORE_DATA == "before_shift_data"
AFTER_DATA == "after_shift_data"

\* restore_from_session_state, and the same four lines at the head of
\* analyze_processed_lots
restore_from_session_state(d, ss) ==
    LET d1 == IF BEFORE_DATA \in DOMAIN ss THEN SetAttr(d, BEFORE_DATA, ss[BEFORE_DATA]) ELSE d
    IN  IF AFTER_DATA \in DOMAIN ss THEN SetAttr(d1, AFTER_DATA, ss[AFTER_DATA]) ELSE d1

\* __init__: the attributes it sets (the four regular/split buckets are not
\* among them), then restore_from_session_state
NewDashboard(ss) ==
    restore_from_session_state(
        [before_shift_data    |-> None,
         after_shift_data     |-> None,
         processed_lots       |-> EmptyList,
         in_progress_lots     |-> EmptyList,
         split_low_yield_lots |-> EmptyList],
        ss)

\* The outcome of a method call: the object and the session state it leaves,
\* what it said, how analyze returned ("none" when it was not called), whether
\* an exception left the method, and the truth of what it returned.
Outcome(d, ss, said, exit, raised, returned) ==
    [dashboard |-> d, session_state |-> ss, said |-> said, analyze_exit |-> exit,
     raised |-> raised, returned |-> returned]

WarnBothNeeded == [level |-> "warning", text |-> "Both before and after shift data needed for analysis"]
ErrorNoLotNumber == [level |-> "error", text |-> "LOT NUMBER column not found in data"]
ErrorCaptureBeforeFirst == [level |-> "error", text |-> "Please capture before shift data first"]

\* what a read that returns None has said: connect_to_sheet or read_sheet_data
\* caught the exception and reported it
ErrorConnecting == [level |-> "error", text |-> "Error connecting to Google Sheets"]
ErrorReading == [level |-> "error", text |-> "Error reading sheet data"]
ReadErrors == {ErrorConnecting, ErrorReading}

\* the regular/split separation of one side: the mask when the side has rows
\* and a CATEGORY column, else an empty split frame and a copy of the side
SplitOf(lots) ==
    IF NRows(lots) > 0 /\ CAT \in lots.columns
    THEN LET split_mask(r) == StrContains(r[CAT], SplitPatterns) IN RowsWhere(lots, split_mask)
    ELSE EmptyFrame

\* a slip: the regular bucket without the mask
RegularOf_Whole(lots) == IF NRows(lots) > 0 THEN lots ELSE EmptyFrame

RegularOf(lots) ==
    IF NRows(lots) > 0 /\ CAT \in lots.columns
    THEN LET not_split_mask(r) == ~StrContains(r[CAT], SplitPatterns) IN RowsWhere(lots, not_split_mask)
    ELSE IF NRows(lots) > 0 THEN lots ELSE EmptyFrame

\* lots['CATEGORY'].str raises on a CATEGORY column that is not of object dtype
SplitRaises(lots) == NRows(lots) > 0 /\ CAT \in lots.columns /\ CAT \notin lots.objcols

\* a slip: the after lots are not taken away
ProcessedLotNumbers_NoDifference(before, after) == DropNaSet(before, LOT)

ProcessedLotNumbers(before, after) == DropNaSet(before, LOT) \ DropNaSet(after, LOT)

\* a slip: the union instead of the intersection
InProgressLotNumbers_Union(before, after) == DropNaSet(before, LOT) \cup DropNaSet(after, LOT)

InProgressLotNumbers(before, after) == DropNaSet(before, LOT) \cap DropNaSet(after, LOT)

\* a slip: one row for each lot, as after drop_duplicates('LOT NUMBER')
RowsOfLots_Deduplicated(before, keys) ==
    [columns |-> before.columns, objcols |-> before.objcols,
     rows |-> LET firsts == {i \in DOMAIN before.rows :
                                 /\ before.rows[i][LOT] \in keys
                                 /\ \A j \in 1..(i - 1) : before.rows[j][LOT] # before.rows[i][LOT]}
                  F[i \in 0..Len(before.rows)] ==
                      IF i = 0 THEN <<>>
                      ELSE IF i \in firsts THEN Append(F[i - 1], before.rows[i]) ELSE F[i - 1]
              IN  F[Len(before.rows)]]

\* before[before['LOT NUMBER'].isin(keys)]
RowsOfLots(before, keys) ==
    LET isin(r) == r[LOT] \in keys IN RowsWhere(before, isin)

\* self.processed_lots and self.in_progress_lots
ProcessedLots(before, after) == RowsOfLots(before, ProcessedLotNumbers(before, after))

\* a slip: the rows in progress taken from the after snapshot
InProgressLots_FromAfter(before, after) == RowsOfLots(after, InProgressLotNumbers(before, after))

InProgressLots(before, after) == RowsOfLots(before, InProgressLotNumbers(before, after))

\* the two guards at the head of the analysis
MissingSnapshot(before, after) == before = None \/ after = None

MissingKeyColumn(before, after) == LOT \notin before.columns \/ LOT \notin after.columns

\* a slip: the analysis marked complete before the guards
Refused_MarkedComplete(d, ss, message, exit) ==
    Outcome(d, Set(ss, "analysis_complete", TRUE), <<message>>, exit, FALSE, FALSE)

\* a slip: empty buckets written before the guards
Refused_EmptyDelta(d, ss, message, exit) ==
    Outcome((("processed_regular_lots" :> EmptyFrame) @@ ("processed_split_low_yield_lots" :> EmptyFrame) @@
             ("in_progress_regular_lots" :> EmptyFrame) @@ ("in_progress_split_low_yield_lots" :> EmptyFrame) @@ d),
            ss, <<message>>, exit, FALSE, FALSE)

\* st.warning or st.error, then return: nothing else is written
Refused(d, ss, message, exit) == Outcome(d, ss, <<message>>, exit, FALSE, FALSE)

analyze_processed_lots(d, ss) ==
    LET d0 == restore_from_session_state(d, ss)
        before == d0[BEFORE_DATA]
        after == d0[AFTER_DATA]
    IN
    IF MissingSnapshot(before, after) THEN Refused(d0, ss, WarnBothNeeded, "warning")
    ELSE IF MissingKeyColumn(before, after) THEN Refused(d0, ss, ErrorNoLotNumber, "error")
    ELSE
    LET processed_lots == ProcessedLots(before, after)
        in_progress_lots == InProgressLots(before, after)
        d1 == SetAttr(SetAttr(d0, "processed_lots", processed_lots),
                      "in_progress_lots", in_progress_lots)
        d2 == SetAttr(SetAttr(d1, "processed_split_low_yield_lots", SplitOf(processed_lots)),
                      "processed_regular_lots", RegularOf(processed_lots))
        d3 == SetAttr(SetAttr(d2, "in_progress_split_low_yield_lots", SplitOf(in_progress_lots)),
                      "in_progress_regular_lots", RegularOf(in_progress_lots))
        d4 == SetAttr(d3, "split_low_yield_lots", d3["processed_split_low_yield_lots"])
    IN
    IF SplitRaises(processed_lots)
    THEN Outcome(d1, ss, <<>>, "raised", TRUE, FALSE)
    ELSE IF SplitRaises(in_progress_lots)
    THEN Outcome(d2, ss, <<>>, "raised", TRUE, FALSE)
    ELSE Outcome(d4, Set(ss, "analysis_complete", TRUE), <<>>, "ok", FALSE, FALSE)

Captured(tag) == [level |-> "success", text |-> tag]

\* a slip: the rows captured added to the rows of the snapshot in the store
capture_before_shift_Merge(d, ss, data) ==
    IF data = None THEN Outcome(d, ss, <<>>, "none", FALSE, FALSE)
    ELSE IF FilterRaises(data) THEN Outcome(d, ss, <<>>, "none", TRUE, FALSE)
    ELSE LET filtered_data == filter_critical_lots(data)
             merged == IF BEFORE_DATA \in DOMAIN ss
                       THEN [filtered_data EXCEPT !.rows = ss[BEFORE_DATA].rows \o @]
                       ELSE filtered_data
         IN  Outcome(SetAttr(d, BEFORE_DATA, merged),
                     Set(Set(ss, BEFORE_DATA, merged), "before_shift_captured", TRUE),
                     <<Captured("Before shift data captured")>>,
                     "none", FALSE, TRUE)

\* a slip: the flag set before the read is looked at
capture_before_shift_FlagFirst(d, ss, data) ==
    IF data = None THEN Outcome(d, Set(ss, "before_shift_captured", TRUE), <<>>, "none", FALSE, FALSE)
    ELSE IF FilterRaises(data) THEN Outcome(d, ss, <<>>, "none", TRUE, FALSE)
    ELSE LET filtered_data == filter_critical_lots(data)
         IN  Outcome(SetAttr(d, BEFORE_DATA, filtered_data),
                     Set(Set(ss, BEFORE_DATA, filtered_data), "before_shift_captured", TRUE),
                     <<Captured("Before shift data captured")>>,
                     "none", FALSE, TRUE)

capture_before_shift(d, ss, data) ==
    IF data = None THEN Outcome(d, ss, <<>>, "none", FALSE, FALSE)
    ELSE IF FilterRaises(data) THEN Outcome(d, ss, <<>>, "none", TRUE, FALSE)
    ELSE LET filtered_data == filter_critical_lots(data)
         IN  Outcome(SetAttr(d, BEFORE_DATA, filtered_data),
                     Set(Set(ss, BEFORE_DATA, filtered_data), "before_shift_captured", TRUE),
                     <<Captured("Before shift data captured")>>,
                     "none", FALSE, TRUE)

capture_after_shift(d, ss, data) ==
    IF data = None THEN Outcome(d, ss, <<>>, "none", FALSE, FALSE)
    ELSE IF FilterRaises(data) THEN Outcome(d, ss, <<>>, "none", TRUE, FALSE)
    ELSE LET filtered_data == filter_critical_lots(data)
             a == analyze_processed_lots(
                      SetAttr(d, AFTER_DATA, filtered_data),
                      Set(Set(ss, AFTER_DATA, filtered_data), "after_shift_captured", TRUE))
         IN  Outcome(a.dashboard, a.session_state,
                     <<Captured("After shift data captured")>> \o a.said,
                     a.analyze_exit, a.raised, ~a.raised)

----------------------------------------------------------------------------
(* create_summary_table *)

Digits == <<"0", "1", "2", "3", "4", "5", "6", "7", "8", "9">>

\* str(n) of a natural number
RECURSIVE IntText(_)
IntText(n) == IF n < 10 THEN Digits[n + 1] ELSE IntText(n \div 10) \o Digits[(n % 10) + 1]

\* the tenths of processed_count / total_lots * 100 that the format '.1f' shows:
\* the nearest, the even one of two that are as near
RateTenths(processed_count, total_lots) ==
    LET q == (processed_count * 1000) \div total_lots
        r == (processed_count * 1000) % total_lots
    IN  IF 2 * r > total_lots \/ (2 * r = total_lots /\ q % 2 = 1) THEN q + 1 ELSE q

\* a slip: the rate formatted whatever the total
ProcessingRate_NoZeroCase(processed_count, total_lots) ==
    IF total_lots > 0
    THEN LET t == RateTenths(processed_count, total_lots)
         IN  IntText(t \div 10) \o "." \o IntText(t % 10) \o "%"
    ELSE "0.0%"

\* f"{(processed_count/total_lots*100):.1f}%" if total_lots > 0 else "0%"
ProcessingRate(processed_count, total_lots) ==
    IF total_lots > 0
    THEN LET t == RateTenths(processed_count, total_lots)
         IN  IntText(t \div 10) \o "." \o IntText(t % 10) \o "%"
    ELSE "0%"

TOTAL_LOTS == "Total Lots (Start of Shift)"
PROCESSING_RATE == "Processing Rate (%)"

\* len(self.attr) if hasattr(self, attr) else 0
CountIfSet(d, attr) == IF attr \in DOMAIN d THEN LenOf(d[attr]) ELSE 0

\* the Value of each Metric of the summary (processed_lots and in_progress_lots
\* are attributes of every dashboard object, so None is never returned)
create_summary_table(d) ==
    LET total_lots == IF d[BEFORE_DATA] # None THEN NRows(d[BEFORE_DATA]) ELSE 0
        processed_count == LenOf(d["processed_lots"])
    IN  (TOTAL_LOTS :> IntText(total_lots)) @@
        ("Processed Regular Lots" :> IntText(CountIfSet(d, "processed_regular_lots"))) @@
        ("Processed Split Low Yield Lots" :> IntText(CountIfSet(d, "processed_split_low_yield_lots"))) @@
        ("In Progress Regular Lots" :> IntText(CountIfSet(d, "in_progress_regular_lots"))) @@
        ("In Progress Split Low Yield Lots" :> IntText(CountIfSet(d, "in_progress_split_low_yield_lots"))) @@
        (PROCESSING_RATE :> ProcessingRate(processed_count, total_lots))

----------------------------------------------------------------------------
(* main: one action per script run of the dashboard stage *)

\* the Results section reads dashboard.processed_regular_lots and the three
\* other buckets whenever analysis_complete is set
ResultsRaise(d, ss) ==
    /\ ss["analysis_complete"]
    /\ \/ "processed_regular_lots" \notin DOMAIN d
       \/ "processed_split_low_yield_lots" \notin DOMAIN d
       \/ "in_progress_regular_lots" \notin DOMAIN d
       \/ "in_progress_split_low_yield_lots" \notin DOMAIN d

\* the rest of the run after the button handlers: the run ends with the
\* exception of the handler, or with the one of the Results section
EndOfRun(o) ==
    /\ session_state' = o.session_state
    /\ dashboard' = o.dashboard
    /\ messages' = o.said
    /\ analyze_exit' = o.analyze_exit
    /\ uncaught' = IF o.raised \/ ResultsRaise(o.dashboard, o.session_state)
                   THEN "AttributeError" ELSE "none"
    /\ UNCHANGED <<sheet_header, filterVars, qtyVars, attendanceVars>>

InitDashboard ==
    /\ session_state = [before_shift_captured |-> FALSE,
                        after_shift_captured  |-> FALSE,
                        analysis_complete     |-> FALSE]
    /\ dashboard = NewDashboard(session_state)
    /\ messages = <<>>
    /\ analyze_exit = "none"
    /\ uncaught = "none"
    /\ sheet_header \in Headers
    /\ filter_arg = None
    /\ filter_in = None
    /\ filter_out = None
    /\ qty_arg = None
    /\ qty_out = None

\* the session as the third step of main finds it: attendance recorded for
\* Shift C with the full team, a detape count of 0 submitted
PassedGate ==
    [attendance_completed |-> TRUE, attendance_completed_date |-> "2025-01-15",
     current_shift |-> "Shift C", detape_completed |-> TRUE,
     detape_completed_date |-> "2025-01-15", detape_count |-> 0]

\* the first run of main that shows the dashboard
Init ==
    /\ InitDashboard
    /\ gate = PassedGate
    /\ stage = [shown |-> "dashboard", said |-> <<>>]
    /\ attendance_form = [submitted |-> TRUE, shift |-> "Shift C", num_present |-> 3,
                          absent_members |-> <<>>, present_members |-> <<"Cid", "Eve">>,
                          returned |-> TRUE]
    /\ members_data = << [Name |-> "Ann", Shift |-> "Shift A"], [Name |-> "Cid", Shift |-> "all"],
                         [Name |-> "Dan", Shift |-> "B"], [Name |-> "Eve", Shift |-> ""],
                         [Name |-> "", Shift |-> "A"] >>
    /\ attendance_sheet =
           << [date |-> "2025-01-15", member |-> "Cid", shift |-> "Shift C", status |-> "Present"],
              [date |-> "2025-01-15", member |-> "Eve", shift |-> "Shift C", status |-> "Present"] >>
    /\ detape_sheet = <<>>
    /\ console = [pc |-> "off", selected_shift |-> "", team_members |-> <<>>, num_present |-> 0,
                  absent_members |-> <<>>, present_members |-> <<>>, said |-> "",
                  returned |-> "none"]

\* a run in which no button of the Controls is pressed
Rerun ==
    EndOfRun(Outcome(NewDashboard(session_state), session_state, <<>>, "none", FALSE, FALSE))

\* the outcome o of a capture, after what the read of the capture has said
AfterRead(said, o) == [o EXCEPT !.said = said \o @]

\* "Capture Before Shift Data", the read returning data (None after err was said)
ClickCaptureBeforeWith(data, err) ==
    EndOfRun(AfterRead(IF data = None THEN <<err>> ELSE <<>>,
                       capture_before_shift(NewDashboard(session_state), session_state, data)))

ClickCaptureBefore ==
    \E data \in SheetReads(sheet_header) :
        \E err \in IF data = None THEN ReadErrors ELSE {ErrorReading} :
            ClickCaptureBeforeWith(data, err)

\* a slip: the capture made whether or not a before snapshot was captured
ClickCaptureAfterWith_NoGuard(data, err) ==
    EndOfRun(AfterRead(IF data = None THEN <<err>> ELSE <<>>,
                       capture_after_shift(NewDashboard(session_state), session_state, data)))

\* "Capture After Shift Data", the read returning data (None after err was said)
ClickCaptureAfterWith(data, err) ==
    IF ~session_state["before_shift_captured"]
    THEN EndOfRun(Outcome(NewDashboard(session_state), session_state,
                          <<ErrorCaptureBeforeFirst>>, "none", FALSE, FALSE))
    ELSE EndOfRun(AfterRead(IF data = None THEN <<err>> ELSE <<>>,
                            capture_after_shift(NewDashboard(session_state), session_state, data)))

ClickCaptureAfter ==
    \E data \in SheetReads(sheet_header) :
        \E err \in IF data = None THEN ReadErrors ELSE {ErrorReading} :
            ClickCaptureAfterWith(data, err)

\* a slip: a reset that clears the flag of the before capture only
ClickReset_BeforeOnly ==
    LET ss == Set(session_state, "before_shift_captured", FALSE)
    IN  EndOfRun(Outcome(NewDashboard(ss), ss, <<>>, "none", FALSE, FALSE))

\* "Reset Analysis": the three flags are cleared and st.rerun() starts the next run
ClickReset ==
    LET ss == Set(Set(Set(session_state, "before_shift_captured", FALSE),
                      "after_shift_captured", FALSE), "analysis_complete", FALSE)
    IN  EndOfRun(Outcome(NewDashboard(ss), ss, <<>>, "none", FALSE, FALSE))

Next ==
    \/ Rerun
    \/ ClickCaptureBefore
    \/ ClickCaptureAfter
    \/ ClickReset

Spec == Init /\ [][Next]_vars

\* analyze_processed_lots called on the dashboard object as it stands
CallAnalyze ==
    LET o == analyze_processed_lots(dashboard, session_state)
    IN  /\ session_state' = o.session_state
        /\ dashboard' = o.dashboard
        /\ messages' = o.said
        /\ analyze_exit' = o.analyze_exit
        /\ uncaught' = IF o.raised THEN "AttributeError" ELSE "none"
        /\ UNCHANGED <<sheet_header, filterVars, qtyVars, attendanceVars>>

NextAnalyze ==
    \/ Next
    \/ CallAnalyze

\* the runs of main, and any number of further calls of analyze_processed_lots
SpecAnalyze == Init /\ [][NextAnalyze]_vars

----------------------------------------------------------------------------
(* filter_critical_lots on its own *)

FilterRow(lot, cat, otd, oper) == (LOT :> lot) @@ (CAT :> cat) @@ (OTD :> otd) @@ (OPER :> oper)

\* The rows the frames given to the filter are drawn from: a row of critical
\* status, a row that is not critical, a row of split category in lower case, a
\* row of empty cells, a row of null cells, and two summary rows that are
\* critical by their status or category.
FilterCatalogue ==
    << FilterRow("A", "NORMAL", "3 NEAR DUE", "TEST"),
       FilterRow("A", "NORMAL", "ON TIME", "TEST"),
       FilterRow("B", "engr-split low yield 2", "ON TIME", "TEST"),
       FilterRow("B", "", "", ""),
       FilterRow("B", NaN, NaN, NaN),
       FilterRow("A", "ENGR-SPLIT LOW YIELD", "OVERDUE", "Grand total"),
       FilterRow("A", "NORMAL", "Expedite Overdue", "NO FILTERS APPLIED") >>

\* the header rows: LOT NUMBER and any of the three columns the filter looks at
FilterHeaders == {{LOT} \cup h : h \in SUBSET {CAT, OTD, OPER}}

FilterSelections ==
    UNION { { s \in [1..n -> DOMAIN FilterCatalogue] : \A i \in 1..n, j \in 1..n : i < j => s[i] < s[j] }
            : n \in 0..MaxFilterRows }

\* the frames given to the filter, and None
FilterInputs ==
    {None} \cup
    { FromRecords([i \in DOMAIN s |-> Restrict(FilterCatalogue[s[i]], h)])
          : s \in FilterSelections, h \in FilterHeaders }

AttributeError == [raised |-> "AttributeError"]

\* the frame of the caller after filter_critical_lots(df): no statement of the
\* function assigns into df, lines 530 and 560 bind the local name to copies
FrameAfterFilter(df) == df

\* one call filter_critical_lots(df)
ApplyFilter ==
    \E df \in FilterInputs :
        /\ filter_arg' = df
        /\ filter_in' = FrameAfterFilter(df)
        /\ filter_out' = IF FilterRaises(df) THEN AttributeError ELSE filter_critical_lots(df)
        /\ UNCHANGED <<dashVars, qtyVars, attendanceVars>>

NextFilter == ApplyFilter

SpecFilter == Init /\ [][NextFilter]_vars

----------------------------------------------------------------------------
(* safe_qty_sum on its own *)

QTY == "QTY"

\* A QTY cell: a number, a text, or null
Num(n) == [num |-> n]
Txt(s) == [text |-> s]
NullCell == [nan |-> TRUE]

\* the characters of the texts of the QTY cells
QtyChars ==
    ("10" :> <<"1", "0">>) @@
    ("7" :> <<"7">>) @@
    ("abc" :> <<"a", "b", "c">>) @@
    ("" :> <<>>)

DigitValue ==
    ("0" :> 0) @@ ("1" :> 1) @@ ("2" :> 2) @@ ("3" :> 3) @@ ("4" :> 4) @@
    ("5" :> 5) @@ ("6" :> 6) @@ ("7" :> 7) @@ ("8" :> 8) @@ ("9" :> 9)

\* the number a sequence of digits spells
RECURSIVE DigitsValue(_)
DigitsValue(cs) ==
    IF cs = <<>> THEN 0
    ELSE 10 * DigitsValue(SubSeq(cs, 1, Len(cs) - 1)) + DigitValue[cs[Len(cs)]]

\* a slip: errors='coerce' read as zero for what is no number, and a text never parsed
ToNumeric_TextAsZero(cell) ==
    IF "num" \in DOMAIN cell THEN cell ELSE Num(0)

\* pd.to_numeric(errors='coerce') on one cell: a number stays, a text of digits
\* is parsed, any other text and the empty text become NaN
ToNumeric(cell) ==
    IF "num" \in DOMAIN cell THEN cell
    ELSE IF "text" \in DOMAIN cell
            /\ QtyChars[cell.text] # <<>>
            /\ \A i \in DOMAIN QtyChars[cell.text] : QtyChars[cell.text][i] \in DOMAIN DigitValue
         THEN Num(DigitsValue(QtyChars[cell.text]))
         ELSE NullCell

\* Series.sum(): the NaN cells are skipped, and the sum of none is 0
RECURSIVE SumSkipNa(_)
SumSkipNa(cells) ==
    IF cells = <<>> THEN 0
    ELSE SumSkipNa(Tail(cells)) + (IF "num" \in DOMAIN Head(cells) THEN Head(cells).num ELSE 0)

safe_qty_sum(df) ==
    IF QTY \notin df.columns \/ Len(df.rows) = 0 THEN 0
    ELSE SumSkipNa([i \in DOMAIN df.rows |-> ToNumeric(df.rows[i][QTY])])

\* the QTY cells the frames are made of
QtyCells == {Num(5), Txt("10"), Txt("7"), Txt("abc"), Txt(""), NullCell}

\* the frames given to safe_qty_sum: with a QTY column of any cells, and without
QtyInputs ==
    UNION { { [columns |-> {LOT, QTY}, rows |-> [i \in 1..n |-> (LOT :> "A") @@ (QTY :> cells[i])]]
                : cells \in [1..n -> QtyCells] } : n \in 0..MaxQtyRows }
    \cup { [columns |-> {LOT}, rows |-> [i \in 1..n |-> (LOT :> "A")]] : n \in 0..MaxQtyRows }

\* one call safe_qty_sum(df)
ApplyQtySum ==
    \E df \in QtyInputs :
        /\ qty_arg' = df
        /\ qty_out' = safe_qty_sum(df)
        /\ UNCHANGED <<dashVars, filterVars, attendanceVars>>

NextQty == ApplyQtySum

SpecQty == Init /\ [][NextQty]_vars

----------------------------------------------------------------------------
(* Attendance: record_attendance, the form of the dashboard, the console *)

FULL_TEAM_SIZE == 3

SHIFTS == <<"Shift A", "Shift B", "Shift C">>

\* datetime.now().strftime("%Y-%m-%d"): the runs of the model are of one day
Today == "2025-01-15"

Range(list) == {list[i] : i \in DOMAIN list}

Has(mapping, key) == key \in DOMAIN mapping

Del(mapping, key) == [k \in DOMAIN mapping \ {key} |-> mapping[k]]

\* one dict of get_all_records() of the PTEO Members sheet
MemberRow(name, shift) == [Name |-> name, Shift |-> shift]

\* a members sheet: shifts written as 'Shift A', as a letter, as 'all', or left
\* empty, and a row without a name; 3 members work in Shift A, 3 in Shift B, 2
\* in Shift C
MembersCatalogue ==
    << MemberRow("Ann", "Shift A"), MemberRow("Cid", "all"), MemberRow("Dan", "B"),
       MemberRow("Eve", ""), MemberRow("", "A") >>

\* members_data: the sheet as loaded, or nothing when load_team_members failed
MembersData == {<<>>, MembersCatalogue}

\* shift.replace("Shift ", "").strip() on the shift texts of the model
NormalizedShift ==
    ("Shift A" :> "A") @@ ("Shift B" :> "B") @@ ("Shift C" :> "C") @@
    ("A" :> "A") @@ ("B" :> "B") @@ ("all" :> "all") @@ ("" :> "")

\* str.upper() on the normalized shift texts
UpperShift == ("A" :> "A") @@ ("B" :> "B") @@ ("C" :> "C") @@ ("all" :> "ALL") @@ ("" :> "")

RECURSIVE get_team_members_for_shift(_, _)
get_team_members_for_shift(members_data_, shift) ==
    IF members_data_ = <<>> THEN <<>>
    ELSE LET member == Head(members_data_)
             name == member.Name
             member_shift == member.Shift
             member_shift_normalized == NormalizedShift[member_shift]
             selected_shift_normalized == NormalizedShift[shift]
             included ==
                 IF member_shift # "" /\ NormalizedShift[member_shift] # ""
                 THEN \/ member_shift_normalized = selected_shift_normalized
                      \/ UpperShift[member_shift_normalized] = "ALL"
                 ELSE TRUE
             rest == get_team_members_for_shift(Tail(members_data_), shift)
         IN  IF name # "" /\ included THEN <<name>> \o rest ELSE rest

ErrorRecordingAttendance == [level |-> "error", text |-> "Error recording attendance"]

\* the lists an iteration over a set can give
Orders(S) == {o \in [1..Cardinality(S) -> S] : Range(o) = S}

\* a slip: the two lists joined, no set made of them
AllMembersLists_Joined(present_members, absent_members) == {present_members \o absent_members}

\* list(set(present_members + absent_members)): the order is the one of the set
AllMembersLists(present_members, absent_members) ==
    Orders(Range(present_members) \cup Range(absent_members))

AttendanceRecords(all_members, shift, present_members, date) ==
    [i \in DOMAIN all_members |->
        [date |-> date, member |-> all_members[i], shift |-> shift,
         status |-> IF all_members[i] \in Range(present_members) THEN "Present" ELSE "Absent"]]

\* record_attendance on the attendance sheet: all_members is the list of the
\* set, written is FALSE when opening the sheet or append_rows raises
record_attendance(sheet, shift, present_members, date, all_members, written) ==
    IF ~written THEN [returned |-> FALSE, sheet |-> sheet, said |-> <<ErrorRecordingAttendance>>]
    ELSE IF all_members = <<>> THEN [returned |-> FALSE, sheet |-> sheet, said |-> <<>>]
    ELSE [returned |-> TRUE,
          sheet |-> sheet \o AttendanceRecords(all_members, shift, present_members, date),
          said |-> <<>>]

\* present_members of both flows: the roster without the absent members, or
\* 'Team Member i' when there is no roster
TeamMemberNames == <<"Team Member 1", "Team Member 2", "Team Member 3">>

PresentMembers(team_members, absent_members, num_present) ==
    IF team_members # <<>>
    THEN SelectSeq(team_members, LAMBDA m : m \notin Range(absent_members))
    ELSE SubSeq(TeamMemberNames, 1, num_present)

\* the names typed where there is no roster
ManualNames == {"Bob", "Team Member 1"}

NonEmpty(lines) == SelectSeq(lines, LAMBDA name : name # "")

----------------------------------------------------------------------------
(* The attendance form and the detape form of main *)

\* which of the three steps of main a run with this session state shows
Shown_DetapeFirst(g) ==
    IF ~g["detape_completed"] THEN "detape"
    ELSE IF ~g["attendance_completed"] THEN "attendance" ELSE "dashboard"

Shown(g) ==
    IF ~g["attendance_completed"] THEN "attendance"
    ELSE IF ~g["detape_completed"] THEN "detape" ELSE "dashboard"

AttendanceAlready == [level |-> "success", text |-> "Attendance already recorded for today!"]
ErrorSelectExactly == [level |-> "error", text |-> "Please select exactly expected_absent absent member(s)"]
ErrorFailedAttendance == [level |-> "error", text |-> "Failed to record attendance. Please try again."]

\* the locals of the last submission of the attendance form: none yet
NoSubmission ==
    [submitted |-> FALSE, shift |-> "", num_present |-> 0, absent_members |-> <<>>,
     present_members |-> <<>>, returned |-> FALSE]

\* the absent members the widgets of the form can hold: a multiselect of at
\* most expected_absent members of the roster, or the lines of the text area
AbsentWidget(team_members, num_present) ==
    IF num_present >= FULL_TEAM_SIZE THEN {<<>>}
    ELSE IF team_members # <<>>
    THEN UNION {{s \in [1..n -> Range(team_members)] : \A i, j \in 1..n : s[i] = s[j] => i = j}
                : n \in 0..(FULL_TEAM_SIZE - num_present)}
    ELSE {NonEmpty(lines) : lines \in UNION {[1..n -> ManualNames \cup {""}] : n \in 0..MaxManualLines}}

\* a slip: no count of absent members is refused
WrongCount_Never(num_present, absent_members) == FALSE

\* the validation of a submission: the team is not full and the number of
\* absent members is not the expected one
WrongCount(num_present, absent_members) ==
    /\ num_present < FULL_TEAM_SIZE
    /\ Len(absent_members) # FULL_TEAM_SIZE - num_present

\* a slip: the flag set before the write is known to have succeeded
AfterAttendance_FlagFirst(g, success, shift) ==
    IF success
    THEN Set(Set(Set(g, "attendance_completed", TRUE), "attendance_completed_date", Today),
             "current_shift", shift)
    ELSE Set(g, "attendance_completed", TRUE)

\* the session state after record_attendance returned success
AfterAttendance(g, success, shift) ==
    IF success
    THEN Set(Set(Set(g, "attendance_completed", TRUE), "attendance_completed_date", Today),
             "current_shift", shift)
    ELSE g

\* show_attendance_form: what the call leaves, and whether it ends in st.rerun()
show_attendance_form(g, sheet, form, data, in) ==
    IF Has(g, "attendance_completed_date") /\ g["attendance_completed_date"] = Today
    THEN [gate |-> IF in.reenter THEN Del(g, "attendance_completed_date") ELSE g,
          sheet |-> sheet, form |-> form, said |-> <<AttendanceAlready>>, rerun |-> in.reenter]
    ELSE LET team_members == get_team_members_for_shift(data, in.shift)
             absent_members == in.absent_members
             present_members == PresentMembers(team_members, absent_members, in.num_present)
             success == record_attendance(sheet, in.shift, present_members, Today,
                                          in.all_members, in.written)
             locals == [submitted |-> in.submitted, shift |-> in.shift,
                        num_present |-> in.num_present, absent_members |-> absent_members,
                        present_members |-> present_members, returned |-> FALSE]
         IN  IF ~in.submitted
             THEN [gate |-> g, sheet |-> sheet, form |-> form, said |-> <<>>, rerun |-> FALSE]
             ELSE IF WrongCount(in.num_present, absent_members)
             THEN [gate |-> g, sheet |-> sheet, form |-> locals,
                   said |-> <<ErrorSelectExactly>>, rerun |-> FALSE]
             ELSE [gate |-> AfterAttendance(g, success.returned, in.shift),
                   sheet |-> success.sheet,
                   form |-> [locals EXCEPT !.returned = success.returned],
                   said |-> IF success.returned THEN <<>>
                            ELSE success.said \o <<ErrorFailedAttendance>>,
                   rerun |-> success.returned]

\* what the user and the sheets give to one call of show_attendance_form
AttendanceInputs(data, shifts, counts) ==
    UNION {UNION {UNION {UNION {
        { [shift |-> shift, num_present |-> num_present, absent_members |-> absent_members,
           all_members |-> all_members, submitted |-> submitted, written |-> written,
           reenter |-> FALSE]
          : all_members \in
                IF submitted /\ written
                THEN AllMembersLists(
                         PresentMembers(get_team_members_for_shift(data, shift), absent_members,
                                        num_present),
                         absent_members)
                ELSE {<<>>} }
        : submitted \in BOOLEAN, written \in BOOLEAN}
        : absent_members \in AbsentWidget(get_team_members_for_shift(data, shift), num_present)}
        : num_present \in counts}
        : shift \in shifts}

\* a run of main that stops at the attendance form
AttendanceRunOver(shifts, counts) ==
    /\ console.pc = "off"
    /\ stage.shown = "attendance"
    /\ \E in \in AttendanceInputs(members_data, shifts, counts) :
           LET o == show_attendance_form(gate, attendance_sheet, attendance_form, members_data, in)
           IN  /\ gate' = o.gate
               /\ attendance_sheet' = o.sheet
               /\ attendance_form' = o.form
               /\ stage' = [shown |-> Shown(o.gate), said |-> IF o.rerun THEN <<>> ELSE o.said]
    /\ UNCHANGED <<members_data, detape_sheet, console, dashVars, filterVars, qtyVars>>

AttendanceRun == AttendanceRunOver(Range(SHIFTS), 0..FULL_TEAM_SIZE)

DetapeAlready == [level |-> "success", text |-> "Detape count already recorded for today"]
WarnNoDetapes == [level |-> "warning", text |-> "No detapes recorded (quantity is 0)"]
ErrorEmptyCodes == [level |-> "error", text |-> "Please fill in package code(s) for detape"]
ErrorRecordingDetape == [level |-> "error", text |-> "Error recording detape count"]
ErrorFailedDetape == [level |-> "error", text |-> "Failed to record detape data. Please try again."]

\* the texts typed as package codes, and str.strip() on them
Strip == ("P1" :> "P1") @@ ("" :> "") @@ (" " :> "")

\* record_detape on the detape sheet: one row of quantity 1 for each code
record_detape(sheet, date, package_codes, written) ==
    IF ~written THEN [returned |-> FALSE, sheet |-> sheet, said |-> <<ErrorRecordingDetape>>]
    ELSE [returned |-> TRUE,
          sheet |-> sheet \o [i \in DOMAIN package_codes |->
                                 [date |-> date, qty |-> 1, code |-> package_codes[i]]],
          said |-> <<>>]

\* the session state after a detape count is accepted
DetapeDone(g, count) ==
    Del(Set(Set(Set(g, "detape_completed", TRUE), "detape_completed_date", Today),
            "detape_count", count),
        "temp_detape_qty")

\* show_detape_form: what the call leaves, and whether it ends in st.rerun()
show_detape_form(g, sheet, in) ==
    IF Has(g, "detape_completed_date") /\ g["detape_completed_date"] = Today
    THEN [gate |-> IF in.reenter THEN Del(g, "detape_completed_date") ELSE g,
          sheet |-> sheet, said |-> <<DetapeAlready>>, rerun |-> in.reenter]
    ELSE LET g1 == Set(g, "temp_detape_qty", in.num_detape)
             empty_codes == {i \in DOMAIN in.package_codes : Strip[in.package_codes[i]] = ""}
             success == record_detape(sheet, Today, in.package_codes, in.written)
         IN  IF ~in.submitted
             THEN [gate |-> g1, sheet |-> sheet, said |-> <<>>, rerun |-> FALSE]
             ELSE IF in.num_detape = 0
             THEN [gate |-> DetapeDone(g1, 0), sheet |-> sheet, said |-> <<WarnNoDetapes>>,
                   rerun |-> TRUE]
             ELSE IF empty_codes # {}
             THEN [gate |-> g1, sheet |-> sheet, said |-> <<ErrorEmptyCodes>>, rerun |-> FALSE]
             ELSE IF success.returned
             THEN [gate |-> Set(DetapeDone(g1, in.num_detape),
                                "detape_package_codes", in.package_codes),
                   sheet |-> success.sheet, said |-> <<>>, rerun |-> TRUE]
             ELSE [gate |-> g1, sheet |-> success.sheet,
                   said |-> success.said \o <<ErrorFailedDetape>>, rerun |-> FALSE]

\* what the user and the sheet give to one call of show_detape_form
DetapeInputs(counts, codes) ==
    UNION {
        { [num_detape |-> num_detape, package_codes |-> package_codes,
           submitted |-> submitted, written |-> written, reenter |-> FALSE]
          : package_codes \in [1..num_detape -> codes],
            submitted \in BOOLEAN, written \in BOOLEAN }
        : num_detape \in counts}

\* a run of main that stops at the detape form
DetapeRunOver(counts, codes) ==
    /\ console.pc = "off"
    /\ stage.shown = "detape"
    /\ \E in \in DetapeInputs(counts, codes) :
           LET o == show_detape_form(gate, detape_sheet, in)
           IN  /\ gate' = o.gate
               /\ detape_sheet' = o.sheet
               /\ stage' = [shown |-> Shown(o.gate), said |-> IF o.rerun THEN <<>> ELSE o.said]
    /\ UNCHANGED <<members_data, attendance_sheet, attendance_form, console,
                   dashVars, filterVars, qtyVars>>

DetapeRun == DetapeRunOver(0..MaxDetape, DOMAIN Strip)

----------------------------------------------------------------------------
(* The attendance console *)

\* int() on the texts typed at the prompts: no entry for a text that is no number
ConsoleInt == ("0" :> 0) @@ ("1" :> 1) @@ ("2" :> 2) @@ ("3" :> 3) @@ ("4" :> 4)

ConsoleTexts == DOMAIN ConsoleInt \cup {"x"}

ConsoleOff ==
    [pc |-> "off", selected_shift |-> "", team_members |-> <<>>, num_present |-> 0,
     absent_members |-> <<>>, present_members |-> <<>>, said |-> "", returned |-> "none"]

ConsoleStart == [ConsoleOff EXCEPT !.pc = "shift"]

ConsoleKeeps == UNCHANGED <<members_data, gate, stage, attendance_form, detape_sheet,
                            dashVars, filterVars, qtyVars>>

\* step 1: the shift number, asked until it is 1, 2 or 3
ConsoleShift ==
    /\ console.pc = "shift"
    /\ \E text \in ConsoleTexts :
           IF text \notin DOMAIN ConsoleInt
           THEN console' = [console EXCEPT !.said = "Invalid input. Please enter a number."]
           ELSE IF ConsoleInt[text] \notin 1..3
           THEN console' = [console EXCEPT !.said = "Invalid choice. Please enter 1, 2, or 3."]
           ELSE console' = [console EXCEPT
                    !.pc = "count",
                    !.selected_shift = SHIFTS[ConsoleInt[text]],
                    !.team_members = get_team_members_for_shift(members_data, SHIFTS[ConsoleInt[text]]),
                    !.said = "Selected"]
    /\ UNCHANGED attendance_sheet
    /\ ConsoleKeeps

\* step 2: the number of present members, asked until it is in 0..FULL_TEAM_SIZE;
\* with a full team step 3 is skipped
ConsoleCount ==
    /\ console.pc = "count"
    /\ \E text \in ConsoleTexts :
           IF text \notin DOMAIN ConsoleInt
           THEN console' = [console EXCEPT !.said = "Invalid input. Please enter a number."]
           ELSE IF ConsoleInt[text] \notin 0..FULL_TEAM_SIZE
           THEN console' = [console EXCEPT !.said = "Invalid number."]
           ELSE IF ConsoleInt[text] < FULL_TEAM_SIZE
           THEN console' = [console EXCEPT !.pc = "absent", !.num_present = ConsoleInt[text],
                                           !.said = "Team is not at full capacity"]
           ELSE console' = [console EXCEPT
                    !.pc = "confirm", !.num_present = ConsoleInt[text],
                    !.present_members = PresentMembers(console.team_members, <<>>, ConsoleInt[text]),
                    !.said = "ATTENDANCE SUMMARY"]
    /\ UNCHANGED attendance_sheet
    /\ ConsoleKeeps

\* the lines typed at 'Absent members: ', as the texts between the commas
AbsentLines == UNION {[1..n -> ConsoleTexts] : n \in 0..MaxAbsentLine}

\* step 3 with a roster: one line of member numbers, asked until it is accepted
ConsoleAbsentNumbers ==
    /\ console.pc = "absent"
    /\ console.team_members # <<>>
    /\ \E line \in AbsentLines :
           LET expected_absent == FULL_TEAM_SIZE - console.num_present
               absent_indices == [i \in DOMAIN line |-> ConsoleInt[line[i]] - 1]
               absent_members == [i \in DOMAIN line |-> console.team_members[absent_indices[i] + 1]]
           IN  IF line = <<>>
               THEN console' = [console EXCEPT !.said = "Error: You must enter expected_absent member(s)"]
               ELSE IF \E i \in DOMAIN line : line[i] \notin DOMAIN ConsoleInt
               THEN console' = [console EXCEPT !.said = "Invalid input. Please enter numbers separated by commas"]
               ELSE IF Len(line) < expected_absent
               THEN console' = [console EXCEPT !.said = "Error: Too few members selected."]
               ELSE IF Len(line) > expected_absent
               THEN console' = [console EXCEPT !.said = "Error: Too many members selected."]
               ELSE IF \A i \in DOMAIN line : ConsoleInt[line[i]] \in 1..Len(console.team_members)
               THEN console' = [console EXCEPT
                        !.pc = "confirm",
                        !.absent_members = absent_members,
                        !.present_members = PresentMembers(console.team_members, absent_members,
                                                           console.num_present),
                        !.said = "ATTENDANCE SUMMARY"]
               ELSE console' = [console EXCEPT !.said = "Invalid member number. Please try again."]
    /\ UNCHANGED attendance_sheet
    /\ ConsoleKeeps

\* step 3 without a roster: one name at a time, until expected_absent are entered
ConsoleAbsentName ==
    /\ console.pc = "absent"
    /\ console.team_members = <<>>
    /\ \E name \in ManualNames \cup {""} :
           LET expected_absent == FULL_TEAM_SIZE - console.num_present
               absent_members == Append(console.absent_members, name)
           IN  IF name = ""
               THEN console' = [console EXCEPT !.said = "Name cannot be empty. Please try again."]
               ELSE IF Len(absent_members) < expected_absent
               THEN console' = [console EXCEPT !.absent_members = absent_members,
                                               !.said = "more to enter"]
               ELSE console' = [console EXCEPT
                        !.pc = "confirm",
                        !.absent_members = absent_members,
                        !.present_members = PresentMembers(<<>>, absent_members, console.num_present),
                        !.said = "ATTENDANCE SUMMARY"]
    /\ UNCHANGED attendance_sheet
    /\ ConsoleKeeps

\* the confirmation, and record_attendance after a yes
ConsoleConfirm ==
    /\ console.pc = "confirm"
    /\ \E confirm \in {"yes", "y", "no"}, written \in BOOLEAN :
       \E all_members \in AllMembersLists(console.present_members, console.absent_members) :
           IF confirm \in {"yes", "y"}
           THEN LET success == record_attendance(attendance_sheet, console.selected_shift,
                                                 console.present_members, Today,
                                                 all_members, written)
                IN  /\ attendance_sheet' = success.sheet
                    /\ console' = [console EXCEPT
                           !.pc = "done",
                           !.returned = IF success.returned THEN "True" ELSE "False",
                           !.said = IF success.returned THEN "ATTENDANCE RECORDED SUCCESSFULLY!"
                                    ELSE "Failed to record attendance."]
           ELSE /\ attendance_sheet' = attendance_sheet
                /\ console' = [console EXCEPT !.pc = "done", !.returned = "False",
                                              !.said = "Attendance recording cancelled."]
    /\ ConsoleKeeps

----------------------------------------------------------------------------
(* The sessions *)

\* the first run of main of a session, or the start of the console program
InitProgram(c) ==
    /\ InitDashboard
    /\ gate = [attendance_completed |-> FALSE, detape_completed |-> FALSE]
    /\ stage = [shown |-> Shown(gate), said |-> <<>>]
    /\ attendance_form = NoSubmission
    /\ members_data \in MembersData
    /\ attendance_sheet = <<>>
    /\ detape_sheet = <<>>
    /\ console = c

\* a session of the dashboard, the console program not started
InitSession == InitProgram(ConsoleOff)

\* one of the two programs is run: a session of the dashboard up to its third
\* step, or the console; the sheet of the lots is not read
InitAttendance ==
    /\ InitProgram(ConsoleOff) \/ InitProgram(ConsoleStart)
    /\ sheet_header = FullHeader

NextAttendance ==
    \/ AttendanceRun
    \/ DetapeRun
    \/ ConsoleShift
    \/ ConsoleCount
    \/ ConsoleAbsentNumbers
    \/ ConsoleAbsentName
    \/ ConsoleConfirm

SpecAttendance == InitAttendance /\ [][NextAttendance]_vars

\* a session of main through its three steps, the two forms submitted as they
\* first show or with one detape
SessionAttendanceRun == AttendanceRunOver({"Shift C"}, {3})

SessionDetapeRun == DetapeRunOver({0, 1}, {"P1", ""})

DashboardRun ==
    /\ stage.shown = "dashboard"
    /\ Next

NextSession ==
    \/ SessionAttendanceRun
    \/ SessionDetapeRun
    \/ DashboardRun

\* the session with the members sheet loaded and the sheet of the lots complete
InitLoadedSession ==
    /\ InitSession
    /\ members_data = MembersCatalogue
    /\ sheet_header = FullHeader

SpecSession == InitLoadedSession /\ [][NextSession]_vars

----------------------------------------------------------------------------
(* Properties of the analysis *)

\* the rows of a bucket, be it a frame or the list [] of the constructor
RowsIn(bucket) == IF bucket = EmptyList THEN <<>> ELSE bucket.rows

\* the LOT NUMBER cells of a sequence of rows
LotCells(rows) == {rows[i][LOT] : i \in DOMAIN rows}

RowSet(rows) == {rows[i] : i \in DOMAIN rows}

\* the analysis of this dashboard object ran to its end on the snapshots it holds
Analysed == analyze_exit = "ok"

Before == dashboard[BEFORE_DATA]
After == dashboard[AFTER_DATA]

\* B and A: the distinct non-null lot numbers of the before and after snapshots
KeysB == {k \in LotCells(Before.rows) : k # NaN}
KeysA == {k \in LotCells(After.rows) : k # NaN}

ProcessedKeys == LotCells(RowsIn(dashboard["processed_lots"]))
InProgressKeys == LotCells(RowsIn(dashboard["in_progress_lots"]))

FourBuckets ==
    {"processed_regular_lots", "processed_split_low_yield_lots",
     "in_progress_regular_lots", "in_progress_split_low_yield_lots"}

\* C1: after an analysis of two snapshots that both have a LOT NUMBER column,
\* the lot numbers of the processed rows are exactly B - A and the lot numbers of
\* the in-progress rows are exactly B \cap A.
C1_ProcessedAndInProgressKeys ==
    Analysed =>
        /\ ProcessedKeys = {k \in KeysB : k \notin KeysA}
        /\ InProgressKeys = {k \in KeysB : k \in KeysA}

\* an analysis with a processed lot, a lot in progress and a lot of the after
\* snapshot that the before snapshot does not have
C1_Witness ==
    /\ Analysed
    /\ ProcessedKeys # {}
    /\ InProgressKeys # {}
    /\ KeysA \ KeysB # {}

\* C2: in every state, no lot number is both on a processed row and on an
\* in-progress row.
C2_ProcessedInProgressDisjoint == ProcessedKeys \cap InProgressKeys = {}

C2_Witness ==
    /\ Analysed
    /\ ProcessedKeys = {"A"}
    /\ InProgressKeys = {"B"}

\* C3: every row of each of the four buckets is a row of the before snapshot,
\* so its lot number is one of the before snapshot, and a lot number that only
\* the after snapshot has is in no bucket.
C3_BucketsWithinBefore ==
    \A b \in FourBuckets \cap DOMAIN dashboard :
        /\ RowSet(dashboard[b].rows) \subseteq RowSet(Before.rows)
        /\ LotCells(dashboard[b].rows) \subseteq LotCells(Before.rows)
        /\ \A k \in LotCells(After.rows) \ LotCells(Before.rows) :
               k \notin LotCells(dashboard[b].rows)

\* an analysis with a lot in progress whose after rows are not its before rows,
\* and a lot that only the after snapshot has
C3_Witness ==
    /\ Analysed
    /\ InProgressKeys # {}
    /\ RowSet(After.rows) \ RowSet(Before.rows) # {}
    /\ LotCells(After.rows) \ LotCells(Before.rows) # {}

BucketKeys(b) == IF b \in DOMAIN dashboard THEN LotCells(RowsIn(dashboard[b])) ELSE {}

\* C4 as claimed: no lot number is in more than one of the four buckets.
C4_FourBucketsDisjointKeys ==
    \A b1 \in FourBuckets, b2 \in FourBuckets :
        b1 # b2 => BucketKeys(b1) \cap BucketKeys(b2) = {}

\* C5 as claimed: no row with a null or an empty LOT NUMBER is in a processed or
\* in-progress bucket, and neither value is a key of B or of A.
C5_NoNullOrEmptyLotCounted ==
    Analysed =>
        /\ \A b \in FourBuckets \cup {"processed_lots", "in_progress_lots"} :
               BucketKeys(b) \cap {NaN, ""} = {}
        /\ ProcessedLotNumbers(Before, After) \cap {NaN, ""} = {}
        /\ InProgressLotNumbers(Before, After) \cap {NaN, ""} = {}

\* The categories of the model that hold the marker 'ENGR-SPLIT LOW YIELD' when
\* the case of the letters is ignored, listed by hand.
MarkedCategories == {"ENGR-SPLIT LOW YIELD", "engr-split low yield 2"}

IsSplitRow(r) == CAT \in DOMAIN r /\ r[CAT] \in MarkedCategories
IsRegularRow(r) == ~IsSplitRow(r)

\* the rows of a side are partitioned as claimed into the two named buckets
PartitionedAsClaimed(side, regular, split) ==
    /\ dashboard[split].rows = SelectSeq(RowsIn(dashboard[side]), IsSplitRow)
    /\ dashboard[regular].rows = SelectSeq(RowsIn(dashboard[side]), IsRegularRow)
    /\ RowSet(dashboard[split].rows) \cap RowSet(dashboard[regular].rows) = {}
    /\ NRows(dashboard[split]) + NRows(dashboard[regular]) = NRows(dashboard[side])
    /\ CAT \notin Before.columns =>
           /\ dashboard[split].rows = <<>>
           /\ dashboard[regular].rows = dashboard[side].rows

\* C6: after an analysis, the processed rows and the in-progress rows are each
\* partitioned into a split bucket, the rows whose CATEGORY holds the marker in
\* any case of letters, and a regular bucket, the other rows, among them the rows
\* of null or empty category; without a CATEGORY column the split bucket is empty
\* and the regular bucket is the whole side.
C6_RegularSplitPartition ==
    Analysed =>
        /\ PartitionedAsClaimed("processed_lots", "processed_regular_lots",
                                "processed_split_low_yield_lots")
        /\ PartitionedAsClaimed("in_progress_lots", "in_progress_regular_lots",
                                "in_progress_split_low_yield_lots")

\* an analysis that puts a row of lower-case marker in a split bucket and a row
\* of null or empty category in a regular bucket
C6_Witness ==
    /\ Analysed
    /\ \E b \in {"processed_split_low_yield_lots", "in_progress_split_low_yield_lots"} :
           \E r \in RowSet(dashboard[b].rows) : r[CAT] = "engr-split low yield 2"
    /\ \E b \in {"processed_regular_lots", "in_progress_regular_lots"} :
           \E r \in RowSet(dashboard[b].rows) : r[CAT] \in {NaN, ""}

\* an analysis of snapshots without a CATEGORY column that has rows on a side
C6_WitnessNoCategory ==
    /\ Analysed
    /\ CAT \notin Before.columns
    /\ NRows(dashboard["processed_regular_lots"]) > 0

\* the number of rows of lot number k in a sequence of rows
CountOf(rows, k) == Cardinality({i \in DOMAIN rows : rows[i][LOT] = k})

\* the lot numbers proper of the before snapshot: neither null nor empty
LotsOfBefore == {k \in LotCells(Before.rows) : k \notin {NaN, ""}}

\* C7: after an analysis, all the before rows of a lot are on one side, with
\* their multiplicity: the rows of the lot in the buckets of that side are as
\* many as its before rows, and the other side has none.
C7_RowsRideAlong ==
    Analysed =>
        \A k \in LotsOfBefore :
            LET n == CountOf(Before.rows, k)
                p == CountOf(dashboard["processed_lots"].rows, k)
                q == CountOf(dashboard["in_progress_lots"].rows, k)
                pb == CountOf(dashboard["processed_regular_lots"].rows, k)
                      + CountOf(dashboard["processed_split_low_yield_lots"].rows, k)
                qb == CountOf(dashboard["in_progress_regular_lots"].rows, k)
                      + CountOf(dashboard["in_progress_split_low_yield_lots"].rows, k)
            IN  /\ pb = p /\ qb = q
                /\ \/ p = n /\ q = 0 /\ k \notin LotCells(After.rows)
                   \/ p = 0 /\ q = n /\ k \in LotCells(After.rows)

\* an analysis where a lot of two before rows and one after row is in progress
C7_Witness ==
    /\ Analysed
    /\ \E k \in LotsOfBefore :
           /\ CountOf(Before.rows, k) = 2
           /\ CountOf(After.rows, k) = 1
           /\ CountOf(dashboard["in_progress_lots"].rows, k) = 2

\* an analysis where a lot of two before rows and no after row is processed
C7_WitnessProcessed ==
    /\ Analysed
    /\ \E k \in LotsOfBefore :
           /\ CountOf(Before.rows, k) = 2
           /\ CountOf(After.rows, k) = 0
           /\ CountOf(dashboard["processed_lots"].rows, k) = 2

\* the four buckets of an analysed dashboard
Delta == [b \in FourBuckets |-> dashboard[b]]

\* the dashboard holds no result of an analysis: the two lists are the empty
\* lists of the constructor and the four buckets are not set
NoDelta ==
    /\ dashboard["processed_lots"] = EmptyList
    /\ dashboard["in_progress_lots"] = EmptyList
    /\ dashboard["split_low_yield_lots"] = EmptyList
    /\ FourBuckets \cap DOMAIN dashboard = {}

\* the snapshots of the store, None for the one that is absent
Stored(tag) == IF tag \in DOMAIN session_state THEN session_state[tag] ELSE None

\* C8: a call of analyze on a dashboard that analysed its two snapshots ends
\* the same way, leaves the four buckets and the two processed/in-progress
\* frames as they were, and leaves the stored snapshots as they were.
C8_AnalyzeIdempotent ==
    [][(Analysed /\ CallAnalyze) =>
           /\ analyze_exit' = "ok"
           /\ Delta' = Delta
           /\ dashboard' = dashboard
           /\ Stored(BEFORE_DATA)' = Stored(BEFORE_DATA)
           /\ Stored(AFTER_DATA)' = Stored(AFTER_DATA)]_vars

\* the state after a direct call of analyze that went to its end with rows on
\* both sides
C8_Witness ==
    /\ Analysed
    /\ messages = <<>>
    /\ NRows(dashboard["processed_lots"]) > 0
    /\ NRows(dashboard["in_progress_lots"]) > 0

\* a snapshot of the dashboard lacks the LOT NUMBER column
LacksLotNumber == LOT \notin Before.columns \/ LOT \notin After.columns

\* C9: a call of analyze on two snapshots of which one lacks the LOT NUMBER
\* column ends with the error 'LOT NUMBER column not found in data'; a call that
\* ends so leaves no delta on the dashboard and leaves analysis_complete as it was.
C9_MissingKeyColumnRefused ==
    [][/\ (analyze_exit' # "none" /\ Before' # None /\ After' # None /\ LacksLotNumber')
           => analyze_exit' = "error"
       /\ analyze_exit' = "error" =>
           /\ LacksLotNumber'
           /\ messages' # <<>>
           /\ messages'[Len(messages')] = ErrorNoLotNumber
           /\ NoDelta'
           /\ session_state'["analysis_complete"] = session_state["analysis_complete"]]_vars

\* an analysis refused for snapshots that have rows and other columns
C9_Witness ==
    /\ analyze_exit = "error"
    /\ NRows(Before) > 0
    /\ NRows(After) > 0
    /\ CAT \in Before.columns

\* C10: while the store lacks the before or the after snapshot, no bucket is
\* written, the analysis is not marked complete, and a call of analyze ends with
\* the warning that both snapshots are needed.
C10_NoDeltaWithoutBothSnapshots ==
    (Stored(BEFORE_DATA) = None \/ Stored(AFTER_DATA) = None) =>
        /\ NoDelta
        /\ ~session_state["analysis_complete"]
        /\ analyze_exit \in {"none", "warning"}
        /\ analyze_exit = "warning" => messages = <<WarnBothNeeded>>

\* analyze was called while the store held the before snapshot only
C10_Witness ==
    /\ analyze_exit = "warning"
    /\ Stored(BEFORE_DATA) # None
    /\ Stored(AFTER_DATA) = None

----------------------------------------------------------------------------
(* Properties of filter_critical_lots *)

\* The statuses of the model that hold 'NEAR DUE', 'EXPEDITE OVERDUE' or
\* 'OVERDUE' and the Operation cells that hold 'Total' or 'No filters applied',
\* when the case of the letters is ignored, listed by hand.
CriticalStatuses == {"3 NEAR DUE", "OVERDUE", "Expedite Overdue", "NEAR DUE", "EXPEDITE OVERDUE"}
SummaryOperations == {"Grand total", "NO FILTERS APPLIED", "Total", "No filters applied"}

\* the two sub-predicates as claimed: false when the column is absent or the
\* cell is empty or null
StatusIsCritical(r) == OTD \in DOMAIN r /\ r[OTD] \in CriticalStatuses
CategoryIsSplit(r) == CAT \in DOMAIN r /\ r[CAT] \in MarkedCategories
IsCriticalAsClaimed(r) == StatusIsCritical(r) \/ CategoryIsSplit(r)
IsSummaryRow(r) == OPER \in DOMAIN r /\ r[OPER] \in SummaryOperations
IsKeptAsClaimed(r) == ~IsSummaryRow(r) /\ IsCriticalAsClaimed(r)
IsNoSummaryRow(r) == ~IsSummaryRow(r)

\* a frame with rows was given to the filter
FilterGivenRows == filter_arg # None /\ NRows(filter_arg) > 0

FilterReturned == filter_out # AttributeError

\* the filter was given a frame with rows and a column it classifies by
FilterClassifies == FilterGivenRows /\ (OTD \in filter_arg.columns \/ CAT \in filter_arg.columns)

\* C16 as claimed: given a frame with an OTD STATUS or a CATEGORY column, the
\* filter returns the rows that are no summary rows and whose status holds one
\* of the three labels or whose category holds the marker, in any case of
\* letters, a null or empty cell counting as no match.
C16_KeepsCriticalRows ==
    FilterClassifies =>
        /\ FilterReturned
        /\ filter_out.rows = SelectSeq(filter_arg.rows, IsKeptAsClaimed)

C17_WitnessNoOperation ==
    /\ FilterClassifies /\ FilterReturned
    /\ OPER \notin filter_arg.columns
    /\ NRows(filter_out) = NRows(filter_arg)

\* C18: given a frame with neither an OTD STATUS nor a CATEGORY column, the
\* filter returns its rows but for the summary rows, all of them when there is
\* no Operation column; and after any call the frame given is what it was.
C18_UnfilteredWithoutColumns ==
    /\ filter_in = filter_arg
    /\ (FilterGivenRows /\ ~FilterClassifies) =>
           /\ FilterReturned
           /\ filter_out.columns = filter_arg.columns
           /\ filter_out.rows = SelectSeq(filter_arg.rows, IsNoSummaryRow)
           /\ OPER \notin filter_arg.columns => filter_out = filter_arg

\* the filter returned all the rows of a frame of LOT NUMBER only
C18_Witness ==
    /\ FilterGivenRows
    /\ filter_arg.columns = {LOT}
    /\ NRows(filter_arg) = MaxFilterRows
    /\ filter_out = filter_arg
    /\ filter_in = filter_arg

----------------------------------------------------------------------------
(* Properties of the store *)

\* C11 as claimed: whenever the store holds both snapshots and the analysis is
\* marked complete, the four buckets of the dashboard object of the run are the
\* ones the analysis of the two stored snapshots gives.
C11_DeltaIsAnalysisOfStore ==
    (/\ Stored(BEFORE_DATA) # None
     /\ Stored(AFTER_DATA) # None
     /\ session_state["analysis_complete"]) =>
        LET o == analyze_processed_lots(NewDashboard(session_state), session_state)
        IN  /\ o.analyze_exit = "ok"
            /\ \A b \in FourBuckets :
                   b \in DOMAIN dashboard /\ dashboard[b] = o.dashboard[b]

BeforeCaptured == [level |-> "success", text |-> "Before shift data captured"]
AfterCaptured == [level |-> "success", text |-> "After shift data captured"]

\* the rows of the frame old that are no rows of the frame new
RowsGone(old, new) ==
    IF old = None THEN {} ELSE RowSet(old.rows) \ RowSet(new.rows)

\* the snapshot stored' under tag is the filtered rows of data and nothing else,
\* and the snapshot under the other tag is as it was
ReplacedBy(tag, other, data) ==
    /\ Stored(tag)'.rows = SelectSeq(data.rows, IsKeptAsClaimed)
    /\ Stored(tag)'.columns = data.columns
    /\ RowSet(Stored(tag)'.rows) \subseteq RowSet(data.rows)
    /\ RowSet(Stored(tag)'.rows) \cap RowsGone(Stored(tag), data) = {}
    /\ Stored(other)' = Stored(other)

\* C12: a capture whose read gives a frame and whose filter returns stores under
\* its tag the filtered rows of that read and no row of the snapshot that was
\* there, and leaves the snapshot of the other tag as it was.
C12_CaptureReplaces ==
    [][/\ (messages' # <<>> /\ messages'[1] = BeforeCaptured) =>
           \A data \in SheetReads(sheet_header) \ {None} :
               (~FilterRaises(data) /\ ClickCaptureBeforeWith(data, ErrorReading))
                   => ReplacedBy(BEFORE_DATA, AFTER_DATA, data)
       /\ (messages' # <<>> /\ messages'[1] = AfterCaptured) =>
           \A data \in SheetReads(sheet_header) \ {None} :
               (~FilterRaises(data) /\ ClickCaptureAfterWith(data, ErrorReading))
                   => ReplacedBy(AFTER_DATA, BEFORE_DATA, data)]_vars

\* the before snapshot captured once more after an analysis of an earlier one
C12_Witness ==
    /\ session_state["analysis_complete"]
    /\ messages = <<BeforeCaptured>>
    /\ NRows(Stored(BEFORE_DATA)) > 0
    /\ NRows(Stored(AFTER_DATA)) > 0

\* C13: a capture whose read returns None leaves the session state as it was,
\* the two snapshots and the three flags among it, says what the read said and
\* returns False.
C13_FailedReadLeavesStore ==
    [][\A err \in ReadErrors :
           (\/ ClickCaptureBeforeWith(None, err)
            \/ session_state["before_shift_captured"] /\ ClickCaptureAfterWith(None, err)) =>
               /\ session_state' = session_state
               /\ messages' = <<err>>
               /\ ~capture_before_shift(NewDashboard(session_state), session_state, None).returned
               /\ ~capture_after_shift(NewDashboard(session_state), session_state, None).returned]_vars

\* a read failed in a run whose store holds a before snapshot with rows
C13_Witness ==
    /\ messages \in {<<ErrorReading>>, <<ErrorConnecting>>}
    /\ session_state["before_shift_captured"]
    /\ NRows(Stored(BEFORE_DATA)) > 0

\* C14 as claimed: a reset leaves no snapshot in the store.
C14_ResetClearsSnapshots ==
    [][ClickReset => (Stored(BEFORE_DATA)' = None /\ Stored(AFTER_DATA)' = None)]_vars

\* C15 as claimed: no run ends with an exception that was not caught, and in a
\* run whose analysis is marked complete the dashboard object has the four
\* buckets the Results section reads.
C15_NoUncaughtError ==
    /\ uncaught = "none"
    /\ session_state["analysis_complete"] => FourBuckets \subseteq DOMAIN dashboard

----------------------------------------------------------------------------
(* Properties of the summary *)

\* the processing rate the summary of the dashboard of the run shows
RateShown == create_summary_table(dashboard)[PROCESSING_RATE]

\* C19 as claimed: after an analysis of a before snapshot that has a lot number,
\* the rate shown is the number of processed lot numbers over the number of
\* distinct lot numbers of the before snapshot.
C19_RateOverDistinctLots ==
    (Analysed /\ KeysB # {}) =>
        RateShown = ProcessingRate(Cardinality(KeysB \ KeysA), Cardinality(KeysB))

\* the rates from 0% to 100% that a before snapshot of the model can give
RatesInRange ==
    {"0%"} \cup UNION {{ProcessingRate(p, t) : p \in 0..t} : t \in 1..MaxRows}

\* C20: the rate shown is the literal '0%' whenever the dashboard has no before
\* snapshot or one of zero rows, whatever the processed count; a total of 4 with 1
\* processed gives '25.0%'; and in every state the rate shown is one from 0% to
\* 100%, the processed rows being never more than the rows of the before snapshot.
C20_RateNeverDivides ==
    /\ \A p \in 0..MaxRows : ProcessingRate(p, 0) = "0%"
    /\ ProcessingRate(1, 4) = "25.0%"
    /\ (Before = None \/ NRows(Before) = 0) => RateShown = "0%"
    /\ Before # None => LenOf(dashboard["processed_lots"]) <= NRows(Before)
    /\ RateShown \in RatesInRange

\* an analysis of a before snapshot that has columns and no row
C20_Witness ==
    /\ Analysed
    /\ Before # None
    /\ LOT \in Before.columns
    /\ NRows(Before) = 0
    /\ NRows(After) > 0
    /\ RateShown = "0%"

\* an analysis that shows a rate strictly between 0% and 100%
C20_WitnessHalf ==
    /\ Analysed
    /\ RateShown = "50.0%"

----------------------------------------------------------------------------
(* Properties of safe_qty_sum *)

\* The value of each QTY cell of the model as claimed, listed by hand: the
\* numbers and the texts that spell a number count, the other cells do not.
ClaimedQty ==
    (Num(5) :> 5) @@ (Txt("10") :> 10) @@ (Txt("7") :> 7) @@
    (Txt("abc") :> 0) @@ (Txt("") :> 0) @@ (NullCell :> 0)

RECURSIVE ClaimedSum(_)
ClaimedSum(rows) ==
    IF rows = <<>> THEN 0 ELSE ClaimedQty[Head(rows)[QTY]] + ClaimedSum(Tail(rows))

QtyCalled == qty_arg # None

\* C21: safe_qty_sum returns 0 for a frame without rows and for one without a
\* QTY column, else the sum of the QTY cells that are numbers or texts of a
\* number, the other cells left out; the cells '10', 'abc', 5 sum to 15.
C21_SafeQtySum ==
    /\ QtyCalled =>
           /\ Len(qty_arg.rows) = 0 => qty_out = 0
           /\ QTY \notin qty_arg.columns => qty_out = 0
           /\ (QTY \in qty_arg.columns /\ Len(qty_arg.rows) > 0) => qty_out = ClaimedSum(qty_arg.rows)
    /\ safe_qty_sum([columns |-> {QTY},
                     rows |-> <<(QTY :> Txt("10")), (QTY :> Txt("abc")), (QTY :> Num(5))>>]) = 15

\* the call on the cells '10', 'abc', 5
C21_Witness ==
    /\ QtyCalled
    /\ QTY \in qty_arg.columns
    /\ [i \in DOMAIN qty_arg.rows |-> qty_arg.rows[i][QTY]] = <<Txt("10"), Txt("abc"), Num(5)>>
    /\ qty_out = 15

\* the call on rows without a QTY column
C21_WitnessNoColumn ==
    /\ QtyCalled
    /\ QTY \notin qty_arg.columns
    /\ Len(qty_arg.rows) > 0
    /\ qty_out = 0

----------------------------------------------------------------------------
(* Properties of the captures in main *)

\* the lot numbers on the rows of a sheet read
OnSheet(data) == IF LOT \in data.columns THEN LotCells(data.rows) \ {NaN} ELSE {}

\* C22 as claimed: when the after capture analyses, no lot on a row of the sheet
\* read of that capture is processed, and every lot of the before snapshot on a
\* row of that read is in progress.
C22_ProcessedOnlyIfGone ==
    [][\A data \in SheetReads(sheet_header) \ {None} :
           (/\ messages' # <<>> /\ messages'[1] = AfterCaptured
            /\ analyze_exit' = "ok"
            /\ ~FilterRaises(data)
            /\ ClickCaptureAfterWith(data, ErrorReading)) =>
               /\ ProcessedKeys' \cap OnSheet(data) = {}
               /\ (KeysB' \cap OnSheet(data)) \subseteq InProgressKeys']_vars

\* C27: a press of 'Capture After Shift Data' while before_shift_captured is
\* false says 'Please capture before shift data first' and leaves the session
\* state as it was, with no capture and no analysis; an after capture and an
\* analysis happen only in a run that began with before_shift_captured true.
C27_AfterCaptureNeedsBefore ==
    [][/\ (~session_state["before_shift_captured"] /\ ClickCaptureAfter) =>
              /\ session_state' = session_state
              /\ messages' = <<ErrorCaptureBeforeFirst>>
              /\ analyze_exit' = "none"
              /\ dashboard' = NewDashboard(session_state)
       /\ (messages' # <<>> /\ messages'[1] = AfterCaptured) => session_state["before_shift_captured"]
       /\ analyze_exit' # "none" => session_state["before_shift_captured"]]_vars

\* the after capture refused after a reset, the before snapshot still stored
C27_Witness ==
    /\ messages = <<ErrorCaptureBeforeFirst>>
    /\ ~session_state["before_shift_captured"]
    /\ Stored(BEFORE_DATA) # None

\* C28: in every state of a session of main, analysis_complete implies
\* after_shift_captured, and after_shift_captured implies before_shift_captured
\* and a before and an after snapshot in the store.
C28_FlagsOrdered ==
    /\ session_state["analysis_complete"] => session_state["after_shift_captured"]
    /\ session_state["after_shift_captured"] =>
           /\ session_state["before_shift_captured"]
           /\ Stored(BEFORE_DATA) # None
           /\ Stored(AFTER_DATA) # None

\* the after snapshot captured and its analysis refused
C28_Witness ==
    /\ session_state["after_shift_captured"]
    /\ ~session_state["analysis_complete"]
    /\ analyze_exit = "error"

\* the three flags set
C28_WitnessComplete ==
    /\ session_state["analysis_complete"]
    /\ session_state["after_shift_captured"]
    /\ analyze_exit = "ok"

\* C29 as claimed: after an after capture whose read gave no row, the before
\* snapshot holding lots, the analysis is complete, every lot number of the
\* before snapshot is processed and none is in progress.
C29_EmptyAfterAllProcessed ==
    (/\ messages # <<>> /\ messages[1] = AfterCaptured
     /\ After = EmptyFrame
     /\ LOT \in Before.columns
     /\ KeysB # {}) =>
        /\ Analysed
        /\ session_state["analysis_complete"]
        /\ ProcessedKeys = KeysB
        /\ InProgressKeys = {}

----------------------------------------------------------------------------
(* Properties of the attendance flows *)

\* the form of the dashboard is the program that is run, not the console
FormFlow == console.pc = "off"

\* the rows a step has added to the attendance sheet
NewRecords == SubSeq(attendance_sheet', Len(attendance_sheet) + 1, Len(attendance_sheet'))

\* the lists and the shift the flow of the step gave to record_attendance
GivenPresent == IF FormFlow THEN attendance_form'.present_members ELSE console.present_members
GivenAbsent == IF FormFlow THEN attendance_form'.absent_members ELSE console.absent_members
GivenShift == IF FormFlow THEN attendance_form'.shift ELSE console.selected_shift
EnteredPresent == IF FormFlow THEN attendance_form'.num_present ELSE console.num_present

\* C23: a step of either flow adds rows to the attendance sheet only with as
\* many absent members entered as FULL_TEAM_SIZE minus the present count; a
\* submission of the form with another count leaves the sheet and the session
\* state as they were and says to select exactly that many; a line of the
\* console with too few or too many numbers is refused with a message and asked
\* again, and the console goes on to the confirmation only with that many.
C23_WrittenOnlyWithExactCount ==
    [][/\ attendance_sheet' # attendance_sheet =>
              Len(GivenAbsent) = FULL_TEAM_SIZE - EnteredPresent
       /\ (/\ FormFlow /\ stage.shown = "attendance"
           /\ attendance_form'.submitted
           /\ Len(attendance_form'.absent_members) # FULL_TEAM_SIZE - attendance_form'.num_present
           /\ (attendance_form' # attendance_form \/ stage'.said # <<>>)) =>
              /\ attendance_sheet' = attendance_sheet
              /\ gate' = gate
              /\ stage'.said = <<ErrorSelectExactly>>
              /\ ~attendance_form'.returned
       /\ (console.pc = "absent" /\ console'.pc = "confirm") =>
              Len(console'.absent_members) = FULL_TEAM_SIZE - console'.num_present
       /\ (console.pc = "absent" /\ console'.pc = "absent"
           /\ console'.said \in {"Error: Too few members selected.",
                                 "Error: Too many members selected."}) =>
              /\ attendance_sheet' = attendance_sheet
              /\ console'.absent_members = console.absent_members]_vars

\* the form accepted with one member present and two absent
C23_Witness ==
    /\ FormFlow
    /\ attendance_sheet # <<>>
    /\ attendance_form.num_present = 1
    /\ Len(attendance_form.absent_members) = 2
    /\ gate["attendance_completed"]

\* the form refused with a wrong count
C23_WitnessRefused ==
    /\ stage.said = <<ErrorSelectExactly>>
    /\ attendance_form.num_present = 1
    /\ Len(attendance_form.absent_members) = 1
    /\ attendance_sheet = <<>>

\* the console after refusing a line with too many numbers
C23_WitnessConsole ==
    /\ console.pc = "absent"
    /\ console.said = "Error: Too many members selected."
    /\ attendance_sheet = <<>>

\* C24: the rows a call of record_attendance adds follow the rows of the sheet,
\* one row for each distinct member of the present and the absent list and no
\* other row, each with the date of the day and the selected shift, its status
\* 'Present' when the member is in the present list and 'Absent' otherwise.
C24_OneRecordPerMember ==
    [][attendance_sheet' # attendance_sheet =>
          LET members == Range(GivenPresent) \cup Range(GivenAbsent)
          IN  /\ Len(attendance_sheet') > Len(attendance_sheet)
              /\ SubSeq(attendance_sheet', 1, Len(attendance_sheet)) = attendance_sheet
              /\ \A m \in members :
                     Cardinality({i \in DOMAIN NewRecords : NewRecords[i].member = m}) = 1
              /\ \A i \in DOMAIN NewRecords :
                     /\ NewRecords[i].member \in members
                     /\ NewRecords[i].date = Today
                     /\ NewRecords[i].shift = GivenShift
                     /\ NewRecords[i].status =
                            IF NewRecords[i].member \in Range(GivenPresent)
                            THEN "Present" ELSE "Absent"]_vars

\* a member entered twice as absent has one row
C24_Witness ==
    /\ attendance_form.absent_members = <<"Bob", "Bob">>
    /\ attendance_form.present_members = <<"Team Member 1">>
    /\ Len(attendance_sheet) = 2
    /\ \E i \in DOMAIN attendance_sheet :
           attendance_sheet[i].member = "Bob" /\ attendance_sheet[i].status = "Absent"

\* a member in both lists has one row, of status 'Present'
C24_WitnessBothLists ==
    /\ "Team Member 1" \in Range(attendance_form.absent_members)
    /\ "Team Member 1" \in Range(attendance_form.present_members)
    /\ \E i \in DOMAIN attendance_sheet :
           attendance_sheet[i].member = "Team Member 1" /\ attendance_sheet[i].status = "Present"

\* the completion dates of a session state
CompletionDates(g) ==
    [k \in {"attendance_completed_date", "detape_completed_date"} \cap DOMAIN g |-> g[k]]

SaidError(said) == \E i \in DOMAIN said : said[i].level = "error"

\* C25: attendance_completed becomes true only in a step in which
\* record_attendance returned success and added rows to the sheet;
\* detape_completed becomes true only in a step in which record_detape added
\* rows or a count of 0 was submitted; a step that says an error (a refused
\* submission, a failed write) leaves both flags, both completion dates and
\* both sheets as they were.
C25_FlagsOnlyAfterSuccess ==
    [][/\ (~gate["attendance_completed"] /\ gate'["attendance_completed"]) =>
              /\ attendance_form'.returned
              /\ Len(attendance_sheet') > Len(attendance_sheet)
              /\ gate'["attendance_completed_date"] = Today
       /\ (~gate["detape_completed"] /\ gate'["detape_completed"]) =>
              /\ gate'["detape_completed_date"] = Today
              /\ \/ Len(detape_sheet') > Len(detape_sheet) /\ gate'["detape_count"] > 0
                 \/ detape_sheet' = detape_sheet /\ gate'["detape_count"] = 0
       /\ SaidError(stage'.said) =>
              /\ gate'["attendance_completed"] = gate["attendance_completed"]
              /\ gate'["detape_completed"] = gate["detape_completed"]
              /\ CompletionDates(gate') = CompletionDates(gate)
              /\ attendance_sheet' = attendance_sheet
              /\ detape_sheet' = detape_sheet]_vars

\* a write of the attendance failed and the form is shown again
C25_Witness ==
    /\ stage.said = <<ErrorRecordingAttendance, ErrorFailedAttendance>>
    /\ stage.shown = "attendance"
    /\ ~gate["attendance_completed"]
    /\ ~Has(gate, "attendance_completed_date")

\* a write of the detape rows failed
C25_WitnessDetape ==
    /\ stage.said = <<ErrorRecordingDetape, ErrorFailedDetape>>
    /\ ~gate["detape_completed"]
    /\ detape_sheet = <<>>

\* a detape count with its codes recorded
C25_WitnessRecorded ==
    /\ gate["detape_completed"]
    /\ gate["detape_count"] = 2
    /\ Len(detape_sheet) = 2

\* the keys of the session state the detape form sets
DetapeKeys(g) ==
    [k \in {"detape_completed", "detape_completed_date", "detape_count",
            "detape_package_codes", "temp_detape_qty"} \cap DOMAIN g |-> g[k]]

\* C26: a run shows the detape form only with attendance_completed true and the
\* dashboard only with both flags true; the detape form acts only in a session
\* with attendance_completed true, and the dashboard acts only in a session
\* with both flags true; a flag that is true stays true.
C26_StepsInOrder ==
    [][/\ stage'.shown = "detape" => gate'["attendance_completed"]
       /\ stage'.shown = "dashboard" =>
              gate'["attendance_completed"] /\ gate'["detape_completed"]
       /\ (detape_sheet' # detape_sheet \/ DetapeKeys(gate') # DetapeKeys(gate)) =>
              gate["attendance_completed"]
       /\ dashVars' # dashVars =>
              gate["attendance_completed"] /\ gate["detape_completed"]
       /\ gate["attendance_completed"] => gate'["attendance_completed"]
       /\ gate["detape_completed"] => gate'["detape_completed"]]_vars

\* an analysis made and the analysis reset, in a session that recorded one detape
C26_Witness ==
    /\ stage.shown = "dashboard"
    /\ gate["detape_count"] = 1
    /\ Stored(AFTER_DATA) # None
    /\ ~session_state["before_shift_captured"]
    /\ gate["attendance_completed"] /\ gate["detape_completed"]

\* the rows of a status among rows
CountStatus(rows, status) == Cardinality({i \in DOMAIN rows : rows[i].status = status})

\* C30 as claimed: the rows the console adds to the attendance sheet are
\* FULL_TEAM_SIZE minus the entered present count of status 'Absent' and the
\* entered present count of status 'Present'.
C30_ConsoleCounts ==
    [][(console.pc = "confirm" /\ attendance_sheet' # attendance_sheet) =>
           /\ CountStatus(NewRecords, "Absent") = FULL_TEAM_SIZE - console.num_present
           /\ CountStatus(NewRecords, "Present") = console.num_present]_vars

====
